---- MODULE Spec2Model ----
(***************************************************************************)
(* Model of src/producto.py: an inventory and sales tracker that keeps a   *)
(* list of products in productos.txt and a list of sales in ventas.txt,    *)
(* both JSON files that every operation reads whole and rewrites whole.    *)
(*                                                                         *)
(* The specifications share the state:                                     *)
(*   Spec      the stores (ProductoManager, VentaManager) called with      *)
(*             arguments of the types the dataclasses declare;             *)
(*   SpecMenu  the interactive loop Sistema.ejecutar, where every argument *)
(*             is the text typed at a prompt;                              *)
(*   SpecIdaVuelta     collections saved and loaded back;                  *)
(*   SpecMalformado    Spec started on missing or malformed files;         *)
(*   SpecProcesos      the sale, statement by statement, by one or two     *)
(*                     processes;                                          *)
(*   SpecConservacion  register and sale alone, with the registered stock  *)
(*                     remembered.                                         *)
(***************************************************************************)
EXTENDS Integers, Sequences, FiniteSets, TLC

VARIABLES
    productos_txt,  \* the products file: [estado, datos]
    ventas_txt,     \* the sales file: [estado, datos]
    op,             \* the operation that ran last ("" before the first one)
    salida,         \* the messages the last operation printed
    pc,             \* "menu": waiting for a choice; "salir": option 7 was
                    \* chosen; "error": an exception ended the process
    proc,           \* what each process holds in memory while it runs an
                    \* operation step by step (SpecProcesos, SpecIdaVuelta)
    registrado      \* history: the stock each id was registered with

vars == <<productos_txt, ventas_txt, op, salida, pc, proc, registrado>>

(***************************************************************************)
(* Bounds of the model.                                                    *)
(***************************************************************************)
MaxStock == 1
MaxCant == 1
MaxVentas == 1

(***************************************************************************)
(* Python values.  A str is a sequence of one-character strings, so that   *)
(* int() and float() can be computed on it.  A float holds a whole number  *)
(* here: no modelled input has a fractional part.  Ausente marks a key a   *)
(* JSON object does not have (an attribute an instance does not have).     *)
(***************************************************************************)
None == [t |-> "none", n |-> 0, s |-> <<>>]
Ausente == [t |-> "ausente", n |-> 0, s |-> <<>>]
PyInt(k) == [t |-> "int", n |-> k, s |-> <<>>]
PyFloat(k) == [t |-> "float", n |-> k, s |-> <<>>]
PyStr(x) == [t |-> "str", n |-> 0, s |-> x]

EsNumero(v) == v.t \in {"int", "float"}

\* bool(v), as an `if v:` tests it
Truthy(v) ==
    CASE v.t = "none" -> FALSE
      [] v.t = "str" -> v.s # <<>>
      [] OTHER -> v.n # 0

\* a - b on numbers: int only when both are int
Resta(a, b) ==
    IF a.t = "int" /\ b.t = "int" THEN PyInt(a.n - b.n) ELSE PyFloat(a.n - b.n)

RECURSIVE Repetir(_, _)
Repetir(x, k) == IF k <= 0 THEN <<>> ELSE x \o Repetir(x, k - 1)

\* a * b with b an int: a number times b, or a str repeated b times
Producto_por(a, b) ==
    CASE a.t = "int" -> PyInt(a.n * b.n)
      [] a.t = "float" -> PyFloat(a.n * b.n)
      [] OTHER -> PyStr(Repetir(a.s, b.n))

(***************************************************************************)
(* The messages the program prints (without their formatted arguments).    *)
(***************************************************************************)
MsgErrorLeerProductos == "Error al leer el archivo de productos."
MsgErrorLeerVentas == "Error al leer el archivo de ventas."
MsgYaExiste == "ERROR: Ya existe un producto con ese ID."
MsgRegistrado == "Producto registrado exitosamente."
MsgActualizado == "Producto actualizado exitosamente."
MsgEliminado == "Producto eliminado exitosamente."
MsgNoEncontrado == "ERROR: No se encontro un producto con ese ID."
MsgVentaRegistrada == "Venta registrada exitosamente."
MsgStockInsuficiente == "ERROR: Stock insuficiente."
MsgOpcionInvalida == "Opcion invalida. Intente nuevamente."
MsgGracias == "Gracias por usar el sistema!"
MsgNoHayVentas == "No hay ventas registradas."
MsgListado == "listado"

(***************************************************************************)
(* Files.                                                                  *)
(***************************************************************************)
NoExiste == [estado |-> "missing", datos |-> <<>>]
Malformado == [estado |-> "malformed", datos |-> <<>>]
Archivo(d) == [estado |-> "ok", datos |-> d]

\* JSON values as the file holds them: a number written without or with a
\* fraction part, a string, null; SinClave for a key an object does not have.
JsonNumero(k, frac) == [j |-> "number", n |-> k, frac |-> frac, s |-> <<>>]
JsonCadena(x) == [j |-> "string", n |-> 0, frac |-> FALSE, s |-> x]
JsonNull == [j |-> "null", n |-> 0, frac |-> FALSE, s |-> <<>>]
SinClave == [j |-> "absent", n |-> 0, frac |-> FALSE, s |-> <<>>]

\* json.dump of one value: an int is written as digits, a float always
\* with a fraction part (1.0), a str quoted, None as null
json_dump(v) ==
    CASE v.t = "int" -> JsonNumero(v.n, FALSE)
      [] v.t = "float" -> JsonNumero(v.n, TRUE)
      [] v.t = "str" -> JsonCadena(v.s)
      [] v.t = "none" -> JsonNull
      [] OTHER -> SinClave

\* json.load of one value: a number with a fraction part is a float
json_load(x) ==
    CASE x.j = "number" -> IF x.frac THEN PyFloat(x.n) ELSE PyInt(x.n)
      [] x.j = "string" -> PyStr(x.s)
      [] x.j = "null" -> None
      [] OTHER -> Ausente

\* json.dump / json.load of one product dict and of one sale dict
json_dump_producto(d) ==
    [id |-> json_dump(d.id), nombre |-> json_dump(d.nombre),
     precio |-> json_dump(d.precio), categoria |-> json_dump(d.categoria),
     stock |-> json_dump(d.stock), descuento |-> json_dump(d.descuento)]

json_load_producto(o) ==
    [id |-> json_load(o.id), nombre |-> json_load(o.nombre),
     precio |-> json_load(o.precio), categoria |-> json_load(o.categoria),
     stock |-> json_load(o.stock), descuento |-> json_load(o.descuento)]

json_dump_venta(d) ==
    [producto_id |-> json_dump(d.producto_id), cantidad |-> json_dump(d.cantidad),
     fecha |-> json_dump(d.fecha), total |-> json_dump(d.total)]

json_load_venta(o) ==
    [producto_id |-> json_load(o.producto_id), cantidad |-> json_load(o.cantidad),
     fecha |-> json_load(o.fecha), total |-> json_load(o.total)]

\* (mutation) a loader that builds a plain Producto whatever the keys
CrearProducto_plano(d) ==
    [clase |-> "Producto", id |-> d.id, nombre |-> d.nombre,
     precio |-> d.precio, categoria |-> d.categoria, stock |-> d.stock,
     descuento |-> Ausente]

\* Producto(**d) / ProductoEspecial(**d): the class is decided by the key
CrearProducto(d) ==
    [clase |-> IF d.descuento = Ausente THEN "Producto" ELSE "ProductoEspecial",
     id |-> d.id, nombre |-> d.nombre, precio |-> d.precio,
     categoria |-> d.categoria, stock |-> d.stock, descuento |-> d.descuento]

\* producto.__dict__
DictProducto(p) ==
    [id |-> p.id, nombre |-> p.nombre, precio |-> p.precio,
     categoria |-> p.categoria, stock |-> p.stock, descuento |-> p.descuento]

\* ProductoManager.cargar_productos: the list and what it printed (<<>> \o
\* makes the comprehension a sequence value, built once)
cargar_productos(f) ==
    IF f.estado = "missing" THEN [lista |-> <<>>, salida |-> <<>>]
    ELSE IF f.estado = "malformed"
    THEN [lista |-> <<>>, salida |-> <<MsgErrorLeerProductos>>]
    ELSE [lista |-> <<>> \o [i \in 1..Len(f.datos) |->
                        CrearProducto(json_load_producto(f.datos[i]))],
          salida |-> <<>>]

\* ProductoManager.guardar_productos: the file it leaves
guardar_productos(productos) ==
    Archivo([i \in 1..Len(productos) |->
                json_dump_producto(DictProducto(productos[i]))])

\* Venta(**d) and venta.__dict__
CrearVenta(d) ==
    [producto_id |-> d.producto_id, cantidad |-> d.cantidad,
     fecha |-> d.fecha, total |-> d.total]

DictVenta(v) ==
    [producto_id |-> v.producto_id, cantidad |-> v.cantidad,
     fecha |-> v.fecha, total |-> v.total]

\* VentaManager.cargar_ventas
cargar_ventas(f) ==
    IF f.estado = "missing" THEN [lista |-> <<>>, salida |-> <<>>]
    ELSE IF f.estado = "malformed"
    THEN [lista |-> <<>>, salida |-> <<MsgErrorLeerVentas>>]
    ELSE [lista |-> <<>> \o [i \in 1..Len(f.datos) |->
                        CrearVenta(json_load_venta(f.datos[i]))],
          salida |-> <<>>]

\* VentaManager.guardar_ventas
guardar_ventas(ventas) ==
    Archivo([i \in 1..Len(ventas) |-> json_dump_venta(DictVenta(ventas[i]))])

\* What an operation leaves: both files, what it printed, and the
\* exception that ended it ("" when it returned).
Resultado(p, v, s, e) ==
    [productos |-> p, ventas |-> v, salida |-> s, excepcion |-> e]

(***************************************************************************)
(* ProductoManager.                                                        *)
(***************************************************************************)
\* (mutation) the duplicate test always answers no
YaExiste_nunca(productos, id) == FALSE

\* any(producto.id == nuevo_producto.id for producto in productos)
YaExiste(productos, id) ==
    \E i \in 1..Len(productos) : productos[i].id = id

\* (mutation) the loops' test `producto.id == id` holds of any product
Coincide_siempre(producto, id) == TRUE

\* `if producto.id == id:` in the loops of update, delete and sale
Coincide(producto, id) == producto.id = id

\* (mutation) the loops stop at the first product, whatever its id
Buscar_primero(productos, id) == IF Len(productos) > 0 THEN 1 ELSE 0

\* the position of the first product the loops match, 0 when none matches
Buscar(productos, id) ==
    IF \E i \in 1..Len(productos) : Coincide(productos[i], id)
    THEN CHOOSE i \in 1..Len(productos) :
            /\ Coincide(productos[i], id)
            /\ \A j \in 1..(i - 1) : ~Coincide(productos[j], id)
    ELSE 0

\* (mutation) a register that gives up when the load reported an error
registrar_producto_aborta(pf, vf, nuevo_producto) ==
    LET c == cargar_productos(pf)
    IN  IF c.salida # <<>> \/ YaExiste(c.lista, nuevo_producto.id)
        THEN Resultado(pf, vf, c.salida \o <<MsgYaExiste>>, "")
        ELSE Resultado(guardar_productos(Append(c.lista, nuevo_producto)), vf,
                       c.salida \o <<MsgRegistrado>>, "")

\* (mutation) the new product is saved without loading the stored ones
registrar_producto_sin_cargar(pf, vf, nuevo_producto) ==
    Resultado(guardar_productos(<<nuevo_producto>>), vf, <<MsgRegistrado>>, "")

registrar_producto(pf, vf, nuevo_producto) ==
    LET c == cargar_productos(pf)
    IN  IF YaExiste(c.lista, nuevo_producto.id)
        THEN Resultado(pf, vf, c.salida \o <<MsgYaExiste>>, "")
        ELSE Resultado(guardar_productos(Append(c.lista, nuevo_producto)), vf,
                       c.salida \o <<MsgRegistrado>>, "")

\* `if nombre:`, `if precio:`, `if categoria:`
SeAplica(valor) == Truthy(valor)

\* `if stock is not None:`
SeAplicaStock(valor) == valor # None

Actualizado(producto, nombre, precio, categoria, stock) ==
    [producto EXCEPT
        !.nombre = IF SeAplica(nombre) THEN nombre ELSE @,
        !.precio = IF SeAplica(precio) THEN precio ELSE @,
        !.categoria = IF SeAplica(categoria) THEN categoria ELSE @,
        !.stock = IF SeAplicaStock(stock) THEN stock ELSE @]

actualizar_producto(pf, vf, id, nombre, precio, categoria, stock) ==
    LET c == cargar_productos(pf)
        i == Buscar(c.lista, id)
    IN  IF i = 0
        THEN Resultado(pf, vf, c.salida \o <<MsgNoEncontrado>>, "")
        ELSE Resultado(
                guardar_productos(
                    [c.lista EXCEPT
                        ![i] = Actualizado(@, nombre, precio, categoria, stock)]),
                vf, c.salida \o <<MsgActualizado>>, "")

\* (mutation) productos.pop(): the last product goes, not the i-th
Pop_ultimo(lista, i) == SubSeq(lista, 1, Len(lista) - 1)

\* productos.pop(i)
Pop(lista, i) ==
    [j \in 1..(Len(lista) - 1) |-> IF j < i THEN lista[j] ELSE lista[j + 1]]

eliminar_producto(pf, vf, id) ==
    LET c == cargar_productos(pf)
        i == Buscar(c.lista, id)
    IN  IF i = 0
        THEN Resultado(pf, vf, c.salida \o <<MsgNoEncontrado>>, "")
        ELSE Resultado(guardar_productos(Pop(c.lista, i)), vf,
                       c.salida \o <<MsgEliminado>>, "")

(***************************************************************************)
(* VentaManager.                                                           *)
(***************************************************************************)
\* `producto.stock >= cantidad`: comparing a str or None with an int raises
SeComparan(stock, cantidad) == EsNumero(stock) /\ EsNumero(cantidad)

\* (mutation) the stock test is missing
HayStock_siempre(stock, cantidad) == TRUE

\* `if producto.stock >= cantidad:`
HayStock(stock, cantidad) == stock.n >= cantidad.n

\* (mutation) `producto.stock -= 1`
NuevoStock_uno(stock, cantidad) == PyInt(stock.n - 1)

\* (mutation) `producto.stock += cantidad`
NuevoStock_suma(stock, cantidad) == PyInt(stock.n + cantidad.n)

\* `producto.stock -= cantidad`
NuevoStock(stock, cantidad) == Resta(stock, cantidad)

\* `total = producto.precio * cantidad`
Total(precio, cantidad) == Producto_por(precio, cantidad)

\* `f"{total:.2f}"` raises for a total that is no number
SeFormatea(total) == EsNumero(total)

\* (mutation) the sale is appended twice
ConVenta_doble(ventas, nueva_venta) ==
    Append(Append(ventas, nueva_venta), nueva_venta)

\* (mutation) the new sale replaces the sales loaded
ConVenta_reemplaza(ventas, nueva_venta) == <<nueva_venta>>

\* Venta(producto_id, cantidad, fecha, total) appended to the reloaded sales
ConVenta(ventas, nueva_venta) == Append(ventas, nueva_venta)

\* VentaManager.registrar_venta on the list `productos` the caller loaded;
\* fecha is what datetime.now().strftime(...) returns.
registrar_venta(pf, vf, producto_id, cantidad, productos, fecha) ==
    LET i == Buscar(productos, producto_id)
    IN  IF i = 0 THEN Resultado(pf, vf, <<MsgNoEncontrado>>, "")
        ELSE IF ~SeComparan(productos[i].stock, cantidad)
        THEN Resultado(pf, vf, <<>>, "TypeError")
        ELSE IF ~HayStock(productos[i].stock, cantidad)
        THEN Resultado(pf, vf, <<MsgStockInsuficiente>>, "")
        ELSE IF productos[i].precio.t \notin {"int", "float", "str"}
        THEN Resultado(pf, vf, <<>>, "TypeError")
        ELSE
        LET total == Total(productos[i].precio, cantidad)
            vendidos == [productos EXCEPT
                            ![i].stock = NuevoStock(@, cantidad)]
            nueva_venta == [producto_id |-> producto_id, cantidad |-> cantidad,
                            fecha |-> fecha, total |-> total]
            v == cargar_ventas(vf)
            vf2 == guardar_ventas(ConVenta(v.lista, nueva_venta))
            pf2 == guardar_productos(vendidos)
        IN  IF SeFormatea(total)
            THEN Resultado(pf2, vf2, v.salida \o <<MsgVentaRegistrada>>, "")
            ELSE Resultado(pf2, vf2, v.salida, "ValueError")

\* Sistema.registrar_venta once its inputs are read: load, then sell
vender(pf, vf, producto_id, cantidad, fecha) ==
    LET c == cargar_productos(pf)
        r == registrar_venta(pf, vf, producto_id, cantidad, c.lista, fecha)
    IN  [r EXCEPT !.salida = c.salida \o @]

(***************************************************************************)
(* The state machine.                                                      *)
(***************************************************************************)
Init ==
    /\ productos_txt = NoExiste
    /\ ventas_txt = NoExiste
    /\ op = ""
    /\ salida = <<>>
    /\ pc = "menu"
    /\ proc = <<>>
    /\ registrado = <<>>

\* An operation ran: the files it left, what it printed, and the process
\* ended if an exception escaped it.
Aplicar(nombre_op, r) ==
    /\ productos_txt' = r.productos
    /\ ventas_txt' = r.ventas
    /\ op' = nombre_op
    /\ salida' = r.salida
    /\ pc' = IF r.excepcion = "" THEN pc ELSE "error"
    /\ UNCHANGED <<proc, registrado>>

(***************************************************************************)
(* Spec: the arguments the stores are called with.                         *)
(***************************************************************************)
Texto(x) == PyStr(x)
P1 == Texto(<<"P", "1">>)
P2 == Texto(<<"P", "2">>)
P3 == Texto(<<"P", "3">>)
Stocks == {PyInt(k) : k \in (-1)..MaxStock}
Cantidades == {PyInt(k) : k \in (-1)..MaxCant}
Fechas == {Texto(<<"t">>)}

\* Producto(id, nombre, precio, categoria, stock)
Producto(id, nombre, precio, categoria, stock) ==
    [clase |-> "Producto", id |-> id, nombre |-> nombre, precio |-> precio,
     categoria |-> categoria, stock |-> stock, descuento |-> Ausente]

\* ProductoEspecial(id, nombre, precio, categoria, stock, descuento)
ProductoEspecial(id, nombre, precio, categoria, stock, descuento) ==
    [clase |-> "ProductoEspecial", id |-> id, nombre |-> nombre,
     precio |-> precio, categoria |-> categoria, stock |-> stock,
     descuento |-> descuento]

\* The products registered: P1 with any stock, and one discounted P2.
NuevosProductos ==
    {Producto(P1, Texto(<<"a">>), PyFloat(1), Texto(<<"x">>), stock) :
        stock \in Stocks}
    \cup {ProductoEspecial(P2, Texto(<<"b">>), PyFloat(1), Texto(<<"y">>),
                           PyInt(1), PyFloat(0))}

\* The ids looked up: P3 is never registered.  Updates and sales are issued
\* for P1 and P3, so that P2 is the product they must leave alone.
IdsBuscados == {P1, P2, P3}
IdsCambiados == {P1, P3}
NombresNuevos == {None, Texto(<<>>), Texto(<<"b">>)}
PreciosNuevos == {None, PyFloat(0), PyFloat(2)}
CategoriasNuevas == {None, Texto(<<>>), Texto(<<"y">>)}
StocksNuevos == {None} \cup Stocks

RegistrarProducto ==
    /\ pc = "menu"
    /\ \E nuevo \in NuevosProductos :
        Aplicar("registrar_producto",
                registrar_producto(productos_txt, ventas_txt, nuevo))

\* The updates issued: for P1 every combination of a precio and a stock,
\* with the two texts both left empty or both supplied; for the id that is
\* not stored a stock alone or everything at once.
ArgumentosActualizar ==
    {<<P1, t[1], precio, t[2], stock>> :
        t \in {<<None, Texto(<<>>)>>, <<Texto(<<"b">>), Texto(<<"y">>)>>},
        precio \in PreciosNuevos, stock \in StocksNuevos}
    \cup {<<P3, None, None, None, stock>> : stock \in StocksNuevos}
    \cup {<<P3, Texto(<<"b">>), PyFloat(2), Texto(<<"y">>), PyInt(0)>>}

ActualizarProducto ==
    /\ pc = "menu"
    /\ \E a \in ArgumentosActualizar :
        Aplicar("actualizar_producto",
                actualizar_producto(productos_txt, ventas_txt, a[1], a[2],
                                    a[3], a[4], a[5]))

EliminarProducto ==
    /\ pc = "menu"
    /\ \E id \in IdsBuscados :
        Aplicar("eliminar_producto",
                eliminar_producto(productos_txt, ventas_txt, id))

\* The sales file grows by one record per sale: the model stops selling at
\* MaxVentas records.
RegistrarVenta ==
    /\ pc = "menu"
    /\ \E id \in IdsCambiados, cantidad \in Cantidades, fecha \in Fechas :
        LET r == vender(productos_txt, ventas_txt, id, cantidad, fecha)
        IN  /\ Len(r.ventas.datos) <= MaxVentas
            /\ Aplicar("registrar_venta", r)

Next ==
    \/ RegistrarProducto
    \/ ActualizarProducto
    \/ EliminarProducto
    \/ RegistrarVenta

Spec == Init /\ [][Next]_vars

(***************************************************************************)
(* Sistema: the interactive loop.  Every input() returns a str.            *)
(***************************************************************************)
Digitos == <<"0", "1", "2", "3", "4", "5", "6", "7", "8", "9">>
EsDigito(c) == \E k \in 1..10 : Digitos[k] = c
ValorDigito(c) == (CHOOSE k \in 1..10 : Digitos[k] = c) - 1

RECURSIVE ValorDigitos(_)
ValorDigitos(x) ==
    IF x = <<>> THEN 0
    ELSE 10 * ValorDigitos(SubSeq(x, 1, Len(x) - 1)) + ValorDigito(x[Len(x)])

SinSigno(x) == IF x # <<>> /\ x[1] \in {"-", "+"} THEN Tail(x) ELSE x

\* The texts int() and float() accept among those over digits, signs and
\* letters: an optional sign and at least one digit.  (No modelled input
\* holds blanks, underscores, a point or an exponent.)
EsLiteral(x) ==
    /\ SinSigno(x) # <<>>
    /\ \A k \in 1..Len(SinSigno(x)) : EsDigito(SinSigno(x)[k])

ValorLiteral(x) ==
    IF x[1] = "-" THEN 0 - ValorDigitos(SinSigno(x)) ELSE ValorDigitos(SinSigno(x))

\* int(texto) and float(texto), for a texto that EsLiteral
int(texto) == PyInt(ValorLiteral(texto.s))
float(texto) == PyFloat(ValorLiteral(texto.s))

\* Sistema.registrar_producto: float() and int() raise ValueError on a text
\* that is no number, before anything is loaded
Sistema_registrar_producto(pf, vf, id, nombre, precio, categoria, stock) ==
    IF ~EsLiteral(precio.s) \/ ~EsLiteral(stock.s)
    THEN Resultado(pf, vf, <<>>, "ValueError")
    ELSE registrar_producto(pf, vf,
            Producto(id, nombre, float(precio), categoria, int(stock)))

\* Sistema.consultar_productos
consultar_productos(pf, vf) ==
    LET c == cargar_productos(pf)
    IN  Resultado(pf, vf,
                  c.salida \o (IF c.lista # <<>> THEN <<MsgListado>> ELSE <<>>),
                  "")

\* Sistema.actualizar_producto: the four texts go to the store as typed
Sistema_actualizar_producto(pf, vf, id, nombre, precio, categoria, stock) ==
    actualizar_producto(pf, vf, id, nombre, precio, categoria, stock)

\* Sistema.eliminar_producto
Sistema_eliminar_producto(pf, vf, id) == eliminar_producto(pf, vf, id)

\* Sistema.registrar_venta
Sistema_registrar_venta(pf, vf, producto_id, cantidad, fecha) ==
    IF ~EsLiteral(cantidad.s)
    THEN Resultado(pf, vf, <<>>, "ValueError")
    ELSE vender(pf, vf, producto_id, int(cantidad), fecha)

\* Sistema.generar_reporte
generar_reporte(pf, vf) ==
    LET v == cargar_ventas(vf)
    IN  Resultado(pf, vf,
                  v.salida \o (IF v.lista # <<>> THEN <<MsgListado>>
                               ELSE <<MsgNoHayVentas>>),
                  "")

(***************************************************************************)
(* SpecMenu: the texts typed at the prompts.                               *)
(***************************************************************************)
Vacio == Texto(<<>>)
EntradasNumero ==
    {Vacio, Texto(<<"0">>), Texto(<<"1">>), Texto(<<"-", "1">>), Texto(<<"x">>)}
EntradasPrecio == {Texto(<<"1">>), Texto(<<"x">>)}
EntradasNombre == {Vacio, Texto(<<"b">>)}
EntradasCategoria == {Vacio, Texto(<<"y">>)}
EntradasPrecioNuevo == {Vacio, Texto(<<"0">>), Texto(<<"2">>)}
EntradasStockNuevo == {Vacio, Texto(<<"1">>)}
OpcionesInvalidas == {"", "0", "8", "x"}

Opcion1 ==
    /\ pc = "menu"
    /\ \E id \in {P1, P2}, precio \in EntradasPrecio, stock \in EntradasNumero :
        Aplicar("1", Sistema_registrar_producto(productos_txt, ventas_txt, id,
                        Texto(<<"a">>), precio, Texto(<<"x">>), stock))

Opcion2 ==
    /\ pc = "menu"
    /\ Aplicar("2", consultar_productos(productos_txt, ventas_txt))

Opcion3 ==
    /\ pc = "menu"
    /\ \E id \in IdsCambiados, nombre \in EntradasNombre,
          precio \in EntradasPrecioNuevo, categoria \in EntradasCategoria,
          stock \in EntradasStockNuevo :
        Aplicar("3", Sistema_actualizar_producto(productos_txt, ventas_txt, id,
                        nombre, precio, categoria, stock))

Opcion4 ==
    /\ pc = "menu"
    /\ \E id \in IdsBuscados :
        Aplicar("4", Sistema_eliminar_producto(productos_txt, ventas_txt, id))

Opcion5 ==
    /\ pc = "menu"
    /\ \E id \in IdsCambiados, cantidad \in EntradasNumero, fecha \in Fechas :
        LET r == Sistema_registrar_venta(productos_txt, ventas_txt, id,
                                         cantidad, fecha)
        IN  /\ Len(r.ventas.datos) <= MaxVentas
            /\ Aplicar("5", r)

Opcion6 ==
    /\ pc = "menu"
    /\ Aplicar("6", generar_reporte(productos_txt, ventas_txt))

Opcion7 ==
    /\ pc = "menu"
    /\ pc' = "salir"
    /\ op' = "7"
    /\ salida' = <<MsgGracias>>
    /\ UNCHANGED <<productos_txt, ventas_txt, proc, registrado>>

OpcionInvalida ==
    /\ pc = "menu"
    /\ \E opcion \in OpcionesInvalidas :
        /\ op' = opcion
        /\ salida' = <<MsgOpcionInvalida>>
        /\ UNCHANGED <<productos_txt, ventas_txt, pc, proc, registrado>>

\* Sistema.ejecutar: one pass of the loop per step
NextMenu ==
    \/ Opcion1
    \/ Opcion2
    \/ Opcion3
    \/ Opcion4
    \/ Opcion5
    \/ Opcion6
    \/ Opcion7
    \/ OpcionInvalida

SpecMenu == Init /\ [][NextMenu]_vars

(***************************************************************************)
(* SpecIdaVuelta: a process holds a collection of products and one of      *)
(* sales in memory, saves each and loads it back.                          *)
(***************************************************************************)
MaxColeccion == 2

\* Venta(producto_id, cantidad, fecha, total)
Venta(producto_id, cantidad, fecha, total) ==
    [producto_id |-> producto_id, cantidad |-> cantidad, fecha |-> fecha,
     total |-> total]

\* The objects a collection is made of: a plain product, one whose stock is
\* a text, a discounted one, a discounted one whose descuento is None; a
\* sale, one of a negative quantity, one whose total is a text.
ProductosGuardables ==
    {Producto(P1, Texto(<<"a">>), PyFloat(1), Texto(<<"x">>), PyInt(1)),
     Producto(P1, Texto(<<>>), PyInt(1), Texto(<<"x">>), Texto(<<"1">>)),
     ProductoEspecial(P2, Texto(<<"b">>), PyFloat(1), Texto(<<"y">>),
                      PyInt(1), PyFloat(0)),
     ProductoEspecial(P2, Texto(<<"b">>), PyFloat(1), Texto(<<"y">>),
                      PyInt(0), None)}

VentasGuardables ==
    {Venta(P1, PyInt(1), Texto(<<"t">>), PyFloat(1)),
     Venta(P3, PyInt(-1), Texto(<<"t">>), PyFloat(-1)),
     Venta(P1, PyInt(1), Texto(<<"t">>), Texto(<<"1">>))}

\* the lists of at most MaxColeccion elements of S
Colecciones(S) == UNION {[1..n -> S] : n \in 0..MaxColeccion}

InitIdaVuelta ==
    /\ productos_txt = NoExiste
    /\ ventas_txt = NoExiste
    /\ op = ""
    /\ salida = <<>>
    /\ pc = "menu"
    /\ registrado = <<>>
    /\ \E productos \in Colecciones(ProductosGuardables),
          ventas \in Colecciones(VentasGuardables) :
        proc = [productos |-> productos, ventas |-> ventas,
                productos_cargados |-> <<>>, ventas_cargadas |-> <<>>,
                paso_productos |-> "memoria", paso_ventas |-> "memoria"]

GuardarProductos ==
    /\ proc.paso_productos = "memoria"
    /\ productos_txt' = guardar_productos(proc.productos)
    /\ proc' = [proc EXCEPT !.paso_productos = "guardado"]
    /\ op' = "guardar_productos"
    /\ UNCHANGED <<ventas_txt, salida, pc, registrado>>

CargarProductos ==
    /\ proc.paso_productos = "guardado"
    /\ proc' = [proc EXCEPT
                  !.productos_cargados = cargar_productos(productos_txt).lista,
                  !.paso_productos = "cargado"]
    /\ op' = "cargar_productos"
    /\ salida' = cargar_productos(productos_txt).salida
    /\ UNCHANGED <<productos_txt, ventas_txt, pc, registrado>>

GuardarVentas ==
    /\ proc.paso_ventas = "memoria"
    /\ ventas_txt' = guardar_ventas(proc.ventas)
    /\ proc' = [proc EXCEPT !.paso_ventas = "guardado"]
    /\ op' = "guardar_ventas"
    /\ UNCHANGED <<productos_txt, salida, pc, registrado>>

CargarVentas ==
    /\ proc.paso_ventas = "guardado"
    /\ proc' = [proc EXCEPT
                  !.ventas_cargadas = cargar_ventas(ventas_txt).lista,
                  !.paso_ventas = "cargado"]
    /\ op' = "cargar_ventas"
    /\ salida' = cargar_ventas(ventas_txt).salida
    /\ UNCHANGED <<productos_txt, ventas_txt, pc, registrado>>

NextIdaVuelta ==
    \/ GuardarProductos
    \/ CargarProductos
    \/ GuardarVentas
    \/ CargarVentas

SpecIdaVuelta == InitIdaVuelta /\ [][NextIdaVuelta]_vars

(***************************************************************************)
(* SpecMalformado: the stores started on files that are missing or hold    *)
(* text json.load rejects.                                                 *)
(***************************************************************************)
InitMalformado ==
    /\ productos_txt \in {NoExiste, Malformado}
    /\ ventas_txt \in {NoExiste, Malformado}
    /\ op = ""
    /\ salida = <<>>
    /\ pc = "menu"
    /\ proc = <<>>
    /\ registrado = <<>>

SpecMalformado == InitMalformado /\ [][Next]_vars

(***************************************************************************)
(* SpecProcesos: one or two processes run the menu's sale against the same *)
(* two files, one statement at a time.  A process holds what it loaded in  *)
(* memory between its load and its saves; nothing locks the files.  A      *)
(* process may be stopped at any statement and does not come back.         *)
(***************************************************************************)
MaxTurnos == 2
NumerosDeProcesos == {1, 2}

\* a process at the menu, with `turnos` sales behind it
EnMenu(turnos) ==
    [pc |-> "menu", turnos |-> turnos, producto_id |-> None,
     cantidad |-> None, productos |-> <<>>, total |-> None, ventas |-> <<>>]

InitProcesos ==
    /\ \E stock \in {k \in Stocks : k.n >= 1} :
        /\ productos_txt = guardar_productos(
                <<Producto(P1, Texto(<<"a">>), PyFloat(1), Texto(<<"x">>),
                           stock)>>)
        /\ registrado = [id \in {P1} |-> stock]
    /\ ventas_txt = NoExiste
    /\ op = ""
    /\ salida = <<>>
    /\ pc = "menu"
    /\ \E n \in NumerosDeProcesos : proc = [p \in 1..n |-> EnMenu(0)]

\* (mutation) the products file is rewritten before the sales file
Despues_productos_antes(sentencia) ==
    CASE sentencia = "decidir" -> "cargar_ventas"
      [] sentencia = "cargar_ventas" -> "guardar_productos"
      [] sentencia = "guardar_productos" -> "guardar_ventas"
      [] sentencia = "guardar_ventas" -> "menu"

\* The statement that runs after each statement of a sale that goes through
\* (lines 139-148); a process's pc names the statement it runs next.
Despues(sentencia) ==
    CASE sentencia = "decidir" -> "cargar_ventas"
      [] sentencia = "cargar_ventas" -> "guardar_ventas"
      [] sentencia = "guardar_ventas" -> "guardar_productos"
      [] sentencia = "guardar_productos" -> "menu"

\* the process `yo` once it has run `sentencia`
Avanzar(yo, sentencia) ==
    IF Despues(sentencia) = "menu" THEN EnMenu(yo.turnos)
    ELSE [yo EXCEPT !.pc = Despues(sentencia)]

\* the sales the first k processes have started
RECURSIVE TurnosTomados(_)
TurnosTomados(k) ==
    IF k = 0 THEN 0 ELSE TurnosTomados(k - 1) + proc[k].turnos

\* Sistema.registrar_venta, lines 223-225: the inputs are read and the
\* products loaded.  The model stops after MaxTurnos sales have started.
PedirVenta(p) ==
    /\ proc[p].pc = "menu"
    /\ TurnosTomados(Len(proc)) < MaxTurnos
    /\ \E id \in IdsCambiados, cantidad \in Cantidades :
        proc' = [proc EXCEPT ![p] =
                    [@ EXCEPT !.pc = "decidir", !.turnos = @ + 1,
                              !.producto_id = id, !.cantidad = cantidad,
                              !.productos =
                                  cargar_productos(productos_txt).lista]]
    /\ op' = "cargar_productos"
    /\ salida' = cargar_productos(productos_txt).salida
    /\ UNCHANGED <<productos_txt, ventas_txt, pc, registrado>>

\* VentaManager.registrar_venta, lines 137-142 and 149-152: the product is
\* looked up in the loaded list, the stock tested and decremented in memory
DecidirVenta(p) ==
    /\ proc[p].pc = "decidir"
    /\ LET yo == proc[p]
           i == Buscar(yo.productos, yo.producto_id)
       IN  IF i = 0
           THEN /\ proc' = [proc EXCEPT ![p] = EnMenu(yo.turnos)]
                /\ salida' = <<MsgNoEncontrado>>
           ELSE IF ~HayStock(yo.productos[i].stock, yo.cantidad)
           THEN /\ proc' = [proc EXCEPT ![p] = EnMenu(yo.turnos)]
                /\ salida' = <<MsgStockInsuficiente>>
           ELSE /\ proc' = [proc EXCEPT ![p] =
                    Avanzar([yo EXCEPT
                                !.productos[i].stock =
                                    NuevoStock(@, yo.cantidad),
                                !.total =
                                    Total(yo.productos[i].precio,
                                          yo.cantidad)],
                            "decidir")]
                /\ salida' = <<>>
    /\ op' = "registrar_venta"
    /\ UNCHANGED <<productos_txt, ventas_txt, pc, registrado>>

\* line 143: ventas = self.cargar_ventas()
RecargarVentas(p) ==
    /\ proc[p].pc = "cargar_ventas"
    /\ proc' = [proc EXCEPT ![p] =
                  Avanzar([@ EXCEPT
                              !.ventas = cargar_ventas(ventas_txt).lista],
                          "cargar_ventas")]
    /\ op' = "cargar_ventas"
    /\ salida' = cargar_ventas(ventas_txt).salida
    /\ UNCHANGED <<productos_txt, ventas_txt, pc, registrado>>

\* lines 144-145: the sale is appended and the sales file rewritten
EscribirVentas(p, fecha) ==
    /\ proc[p].pc = "guardar_ventas"
    /\ ventas_txt' = guardar_ventas(
            ConVenta(proc[p].ventas,
                     Venta(proc[p].producto_id, proc[p].cantidad, fecha,
                           proc[p].total)))
    /\ proc' = [proc EXCEPT ![p] = Avanzar(@, "guardar_ventas")]
    /\ op' = "guardar_ventas"
    /\ salida' = IF Despues("guardar_ventas") = "menu"
                 THEN <<MsgVentaRegistrada>> ELSE <<>>
    /\ UNCHANGED <<productos_txt, pc, registrado>>

\* lines 146-148: the products file is rewritten from the list loaded at
\* line 225; after the last write the sale is announced and the process is
\* back at the menu
EscribirProductos(p) ==
    /\ proc[p].pc = "guardar_productos"
    /\ productos_txt' = guardar_productos(proc[p].productos)
    /\ proc' = [proc EXCEPT ![p] = Avanzar(@, "guardar_productos")]
    /\ op' = "guardar_productos"
    /\ salida' = IF Despues("guardar_productos") = "menu"
                 THEN <<MsgVentaRegistrada>> ELSE <<>>
    /\ UNCHANGED <<ventas_txt, pc, registrado>>

\* the process is killed in the middle of a sale
Detener(p) ==
    /\ proc[p].pc \notin {"menu", "detenido"}
    /\ proc' = [proc EXCEPT ![p].pc = "detenido"]
    /\ op' = "detener"
    /\ salida' = <<>>
    /\ UNCHANGED <<productos_txt, ventas_txt, pc, registrado>>

NextProcesos ==
    \E p \in 1..Len(proc) :
        \/ PedirVenta(p)
        \/ DecidirVenta(p)
        \/ RecargarVentas(p)
        \/ \E fecha \in Fechas : EscribirVentas(p, fecha)
        \/ EscribirProductos(p)
        \/ Detener(p)

SpecProcesos == InitProcesos /\ [][NextProcesos]_vars

(***************************************************************************)
(* SpecConservacion: products are registered and sold, never updated nor   *)
(* deleted; `registrado` remembers the stock each id was registered with.  *)
(***************************************************************************)
RegistrarAnotando ==
    /\ pc = "menu"
    /\ \E nuevo \in NuevosProductos :
        LET r == registrar_producto(productos_txt, ventas_txt, nuevo)
        IN  /\ productos_txt' = r.productos
            /\ ventas_txt' = r.ventas
            /\ op' = "registrar_producto"
            /\ salida' = r.salida
            /\ registrado' =
                IF r.salida = <<MsgRegistrado>>
                THEN [id \in DOMAIN registrado \cup {nuevo.id} |->
                        IF id = nuevo.id THEN nuevo.stock ELSE registrado[id]]
                ELSE registrado
            /\ UNCHANGED <<pc, proc>>

\* The sales of this specification go to every id, and one record further
\* than those of Spec, so that a product is sold more than once.
VenderAnotando ==
    /\ pc = "menu"
    /\ \E id \in IdsBuscados, cantidad \in Cantidades, fecha \in Fechas :
        LET r == vender(productos_txt, ventas_txt, id, cantidad, fecha)
        IN  /\ Len(r.ventas.datos) <= MaxVentas + 1
            /\ Aplicar("registrar_venta", r)

NextConservacion ==
    \/ RegistrarAnotando
    \/ VenderAnotando

SpecConservacion == Init /\ [][NextConservacion]_vars

(***************************************************************************)
(* Properties of the stores, checked under Spec.  Each one examines, in    *)
(* every reachable state, what a call would leave there, for every         *)
(* argument of the sets above; the actions apply these same operators.     *)
(***************************************************************************)
\* the records of a products file and of a sales file, as json.load reads
\* them
Leido(f) == <<>> \o [i \in 1..Len(f.datos) |-> json_load_producto(f.datos[i])]
LeidoVentas(f) == <<>> \o [i \in 1..Len(f.datos) |-> json_load_venta(f.datos[i])]
Almacenados == Leido(productos_txt)
Vendidos == LeidoVentas(ventas_txt)

\* the positions in the products file that hold id
Posiciones(id) == {i \in 1..Len(Almacenados) : Almacenados[i].id = id}

\* C1: a sale of a stored product with cantidad <= its stock leaves that
\* product's stock lowered by exactly cantidad, every other field and product
\* as it was, and the sales file with exactly one more record, at the end,
\* holding the given id and cantidad and total = precio * cantidad.
C1_VentaValida ==
    \A id \in IdsBuscados, cantidad \in Cantidades, fecha \in Fechas :
        \A i \in Posiciones(id) :
            cantidad.n <= Almacenados[i].stock.n =>
                LET r == vender(productos_txt, ventas_txt, id, cantidad, fecha)
                    venta == LeidoVentas(r.ventas)[Len(LeidoVentas(r.ventas))]
                IN  /\ r.excepcion = ""
                    /\ Leido(r.productos) =
                         [Almacenados EXCEPT
                            ![i].stock = PyInt(@.n - cantidad.n)]
                    /\ Len(LeidoVentas(r.ventas)) = Len(Vendidos) + 1
                    /\ SubSeq(LeidoVentas(r.ventas), 1, Len(Vendidos)) = Vendidos
                    /\ venta.producto_id = id
                    /\ venta.cantidad = cantidad
                    /\ EsNumero(venta.total)
                    /\ venta.total.n = Almacenados[i].precio.n * cantidad.n

\* a sale of one unit at price 2 has been recorded and left P1 without stock
C1_Witness ==
    /\ op = "registrar_venta"
    /\ salida = <<MsgVentaRegistrada>>
    /\ \E k \in 1..Len(Vendidos) :
        /\ Vendidos[k].producto_id = P1
        /\ Vendidos[k].cantidad = PyInt(1)
        /\ Vendidos[k].total.n = 2
    /\ \E i \in Posiciones(P1) : Almacenados[i].stock = PyInt(0)

\* C2: a sale of a stored product with cantidad > its stock prints the
\* insufficient-stock error and leaves both files exactly as they were.
C2_StockInsuficiente ==
    \A id \in IdsBuscados, cantidad \in Cantidades, fecha \in Fechas :
        \A i \in Posiciones(id) :
            cantidad.n > Almacenados[i].stock.n =>
                LET r == vender(productos_txt, ventas_txt, id, cantidad, fecha)
                IN  /\ r.salida = <<MsgStockInsuficiente>>
                    /\ r.excepcion = ""
                    /\ r.productos = productos_txt
                    /\ r.ventas = ventas_txt

\* a sale of P1 has just been refused for lack of stock
C2_Witness ==
    /\ op = "registrar_venta"
    /\ salida = <<MsgStockInsuficiente>>
    /\ \E i \in Posiciones(P1) : Almacenados[i].stock.n < MaxCant

\* C3: every product in the products file has stock >= 0.
C3_StockNoNegativo ==
    \A i \in 1..Len(Almacenados) : Almacenados[i].stock.n >= 0

\* C4: no two products in the products file have the same id.
C4_IdsUnicos ==
    \A i, j \in 1..Len(Almacenados) :
        Almacenados[i].id = Almacenados[j].id => i = j

\* two products are stored and a registration has just been refused as a
\* duplicate
C4_Witness ==
    /\ Len(Almacenados) = 2
    /\ op = "registrar_producto"
    /\ salida = <<MsgYaExiste>>

\* C5: registering an id that is stored prints the duplicate error and
\* leaves the products file as it was; registering an id that is not stored
\* leaves the file with that product added at the end, the rest as it was.
C5_Registrar ==
    \A nuevo \in NuevosProductos :
        LET r == registrar_producto(productos_txt, ventas_txt, nuevo)
        IN  IF Posiciones(nuevo.id) # {}
            THEN /\ r.salida = <<MsgYaExiste>>
                 /\ r.productos = productos_txt
            ELSE /\ r.salida = <<MsgRegistrado>>
                 /\ r.productos.estado = "ok"
                 /\ Leido(r.productos) =
                      Append(Almacenados,
                             [id |-> nuevo.id, nombre |-> nuevo.nombre,
                              precio |-> nuevo.precio,
                              categoria |-> nuevo.categoria,
                              stock |-> nuevo.stock,
                              descuento |-> nuevo.descuento])

\* P1 has just been registered behind P2, which is stored as it was given
C5_Witness ==
    /\ op = "registrar_producto"
    /\ salida = <<MsgRegistrado>>
    /\ Len(Almacenados) = 2
    /\ Almacenados[1].id = P2
    /\ Almacenados[2].id = P1

\* C6: updating an id that is not stored prints the not-found error and
\* leaves both files as they were.
C6_ActualizarAusente ==
    \A id \in IdsBuscados :
        Posiciones(id) = {} =>
            \A nombre \in NombresNuevos, precio \in PreciosNuevos,
               categoria \in {None, Texto(<<"y">>)},
               stock \in {None, PyInt(0)} :
                LET r == actualizar_producto(productos_txt, ventas_txt, id,
                                             nombre, precio, categoria, stock)
                IN  /\ r.salida = <<MsgNoEncontrado>>
                    /\ r.productos = productos_txt
                    /\ r.ventas = ventas_txt

\* an update has just been refused while a product is stored
C6_Witness ==
    /\ op = "actualizar_producto"
    /\ salida = <<MsgNoEncontrado>>
    /\ Len(Almacenados) >= 1

\* a value supplied and not empty: None and "" are not, the number 0 is
Suministrado(valor) == valor # None /\ valor # Texto(<<>>)

\* C7: updating a stored id replaces nombre, precio and categoria exactly
\* when a non-empty value is supplied (a precio of 0 included), replaces
\* stock exactly when a stock is given, and leaves the id, the other fields
\* and the other products as they were.
C7_SobrescrituraParcial ==
    [][\A id \in IdsBuscados, nombre \in NombresNuevos,
          precio \in PreciosNuevos, categoria \in CategoriasNuevas,
          stock \in StocksNuevos :
        \A i \in Posiciones(id) :
            Aplicar("actualizar_producto",
                    actualizar_producto(productos_txt, ventas_txt, id, nombre,
                                        precio, categoria, stock))
            => Leido(productos_txt') =
                [Almacenados EXCEPT
                    ![i].nombre = IF Suministrado(nombre) THEN nombre ELSE @,
                    ![i].precio = IF Suministrado(precio) THEN precio ELSE @,
                    ![i].categoria =
                        IF Suministrado(categoria) THEN categoria ELSE @,
                    ![i].stock = IF stock # None THEN stock ELSE @]]_vars

\* C8 (under SpecMenu): in option 3 every field whose prompt is answered
\* with Enter keeps the value stored before, the stock among them.
C8_EnterMantiene ==
    [][\A id \in IdsBuscados, nombre \in EntradasNombre,
          precio \in EntradasPrecioNuevo, categoria \in EntradasCategoria,
          stock \in EntradasStockNuevo :
        \A i \in Posiciones(id) :
            Aplicar("3", Sistema_actualizar_producto(productos_txt, ventas_txt,
                            id, nombre, precio, categoria, stock))
            => /\ Len(Leido(productos_txt')) = Len(Almacenados)
               /\ nombre = Vacio =>
                    Leido(productos_txt')[i].nombre = Almacenados[i].nombre
               /\ precio = Vacio =>
                    Leido(productos_txt')[i].precio = Almacenados[i].precio
               /\ categoria = Vacio =>
                    Leido(productos_txt')[i].categoria = Almacenados[i].categoria
               /\ stock = Vacio =>
                    Leido(productos_txt')[i].stock = Almacenados[i].stock]_vars

\* C9: a sale of an id that is not stored prints the not-found error and
\* leaves both files as they were.
C9_VentaAusente ==
    \A id \in IdsBuscados, cantidad \in Cantidades, fecha \in Fechas :
        Posiciones(id) = {} =>
            LET r == vender(productos_txt, ventas_txt, id, cantidad, fecha)
            IN  /\ r.salida = <<MsgNoEncontrado>>
                /\ r.excepcion = ""
                /\ r.productos = productos_txt
                /\ r.ventas = ventas_txt

\* a sale has just been refused as not found while a product with stock is
\* stored
C9_Witness ==
    /\ op = "registrar_venta"
    /\ salida = <<MsgNoEncontrado>>
    /\ \E i \in 1..Len(Almacenados) : Almacenados[i].stock.n >= 1

\* C10: deleting an id that is not stored prints the not-found error and
\* leaves the products file as it was; deleting a stored id leaves the file
\* without that product and with the others as they were, in their order.
C10_Eliminar ==
    \A id \in IdsBuscados :
        LET r == eliminar_producto(productos_txt, ventas_txt, id)
        IN  IF Posiciones(id) = {}
            THEN /\ r.salida = <<MsgNoEncontrado>>
                 /\ r.productos = productos_txt
            ELSE /\ r.salida = <<MsgEliminado>>
                 /\ Leido(r.productos) =
                      SelectSeq(Almacenados, LAMBDA d : d.id # id)
                 /\ Len(Leido(r.productos)) = Len(Almacenados) - 1

\* a product has just been deleted and another one is still stored
C10_Witness ==
    /\ op = "eliminar_producto"
    /\ salida = <<MsgEliminado>>
    /\ Len(Almacenados) = 1

C18_NoAumenta ==
    [][op' = "registrar_venta" /\ salida' = <<MsgVentaRegistrada>> =>
        /\ \A i \in 1..Len(Almacenados) :
            Leido(productos_txt')[i].stock.n <= Almacenados[i].stock.n
        /\ \A k \in 1..Len(LeidoVentas(ventas_txt')) :
            /\ LeidoVentas(ventas_txt')[k].cantidad.n > 0
            /\ LeidoVentas(ventas_txt')[k].total.n >= 0]_vars

(***************************************************************************)
(* Properties of the files, checked under SpecIdaVuelta.                   *)
(***************************************************************************)
\* C11: a collection of products saved with guardar_productos and loaded
\* with cargar_productos comes back equal (same ids, field values, variant
\* and order), and so does a collection of sales through guardar_ventas
\* and cargar_ventas.
C11_IdaVuelta ==
    /\ proc.paso_productos = "cargado"
        => proc.productos_cargados = proc.productos
    /\ proc.paso_ventas = "cargado" => proc.ventas_cargadas = proc.ventas

\* both collections came back, the products of both variants among them
C11_Witness ==
    /\ proc.paso_productos = "cargado"
    /\ proc.paso_ventas = "cargado"
    /\ Len(proc.ventas_cargadas) >= 1
    /\ \E i, j \in 1..Len(proc.productos_cargados) :
        /\ proc.productos_cargados[i].clase = "Producto"
        /\ proc.productos_cargados[j].clase = "ProductoEspecial"

RECURSIVE CantidadVendida(_, _)
CantidadVendida(ventas, id) ==
    IF ventas = <<>> THEN 0
    ELSE CantidadVendida(SubSeq(ventas, 1, Len(ventas) - 1), id)
         + (IF ventas[Len(ventas)].producto_id = id
            THEN ventas[Len(ventas)].cantidad.n ELSE 0)

\* the stock stored for `id` in the list `productos`
StockDe(productos, id) == productos[Buscar(productos, id)].stock.n

\* no process is in the middle of a sale
TodosEnMenu == \A p \in 1..Len(proc) : proc[p].pc = "menu"

\* C13: with exactly one process using the files, the quantity recorded as
\* sold for a product never exceeds the stock it was registered with, and
\* whenever the process is back at the menu the stored stock plus the
\* quantity sold is that stock.
C13_UnProceso ==
    Len(proc) = 1 =>
        \A id \in DOMAIN registrado :
            /\ CantidadVendida(Vendidos, id) <= registrado[id].n
            /\ TodosEnMenu =>
                StockDe(Almacenados, id) + CantidadVendida(Vendidos, id)
                    = registrado[id].n

\* C13, the two-process case: both processes are back at the menu after
\* interleaved sales, more has been sold than was ever in stock, and the
\* stored stock plus the quantity sold is no longer the registered stock
C13_Witness ==
    /\ Len(proc) = 2
    /\ TodosEnMenu
    /\ \E id \in DOMAIN registrado :
        /\ CantidadVendida(Vendidos, id) > registrado[id].n
        /\ StockDe(Almacenados, id) + CantidadVendida(Vendidos, id)
            # registrado[id].n

(***************************************************************************)
(* Properties of the interactive loop, checked under SpecMenu.             *)
(***************************************************************************)
\* C14: every pass of the loop for a choice other than 7 ends back at the
\* menu, whatever is typed at the prompts; an unrecognised option changes
\* neither file; the loop ends only on choice 7.
C14_VuelveAlMenu ==
    [][/\ op' # "7" => pc' = "menu"
       /\ op' = "7" => pc' = "salir"
       /\ op' \in OpcionesInvalidas =>
            UNCHANGED <<productos_txt, ventas_txt>>]_vars

(***************************************************************************)
(* Properties of register and sale alone, checked under SpecConservacion.  *)
(***************************************************************************)
\* C15: from empty files, after any sequence of registers and sales, for
\* every product the stored stock plus the quantities of all the sale
\* records with its id is the stock it was registered with.
C15_Conservacion ==
    \A id \in DOMAIN registrado :
        /\ Posiciones(id) # {}
        /\ StockDe(Almacenados, id) + CantidadVendida(Vendidos, id)
            = registrado[id].n

\* two sales of one product are recorded, one of them of a positive
\* quantity, and another product is stored
C15_Witness ==
    /\ \E i, j \in 1..Len(Vendidos) :
        /\ i # j
        /\ Vendidos[i].producto_id = Vendidos[j].producto_id
        /\ Vendidos[i].cantidad.n >= 1
    /\ Len(Almacenados) = 2

\* C17: one process alone.  The products file never shows a decrement
\* whose sale record is not in the sales file: stock on disk plus the
\* quantities recorded is the registered stock, or it is so without the
\* last record, whose decrement is still to be written.
C17_VentasAntes ==
    Len(proc) = 1 =>
        \A id \in DOMAIN registrado :
            \/ StockDe(Almacenados, id) + CantidadVendida(Vendidos, id)
                = registrado[id].n
            \/ /\ Vendidos # <<>>
               /\ proc[1].pc \in {"guardar_productos", "detenido"}
               /\ StockDe(Almacenados, id)
                  + CantidadVendida(SubSeq(Vendidos, 1, Len(Vendidos) - 1), id)
                  = registrado[id].n

\* the process was stopped between the two writes: the sale is recorded
\* and the stock on disk is still the registered one
C17_Witness ==
    /\ Len(proc) = 1
    /\ proc[1].pc = "detenido"
    /\ \E id \in DOMAIN registrado :
        /\ CantidadVendida(Vendidos, id) >= 1
        /\ StockDe(Almacenados, id) = registrado[id].n

\* C19: after any sequence of menu choices every stored product's precio
\* is a number and its stock is an int, so that a sale of any stored
\* product can compare the stock with the quantity and compute a numeric
\* total.
C19_TiposConservados ==
    /\ \A i \in 1..Len(Almacenados) :
        /\ EsNumero(Almacenados[i].precio)
        /\ Almacenados[i].stock.t = "int"
    /\ pc = "menu" =>
        \A i \in 1..Len(Almacenados), cantidad \in EntradasNumero :
            EsLiteral(cantidad.s) =>
                LET r == Sistema_registrar_venta(productos_txt, ventas_txt,
                            Almacenados[i].id, cantidad, Texto(<<"t">>))
                IN  /\ r.excepcion = ""
                    /\ \A k \in 1..Len(LeidoVentas(r.ventas)) :
                        EsNumero(LeidoVentas(r.ventas)[k].total)

====
